---- MODULE Spec2Model ----
(***************************************************************************)
(* Ride-dispatch engine of the cab booking application.                    *)
(*                                                                         *)
(* The model follows one Dispatch document through                         *)
(*   - POST /offers/start  (services/rides-service/server.js),             *)
(*   - POST /ack-offer     (services/rides-service/server.js),             *)
(*   - the BullMQ job handler of services/dispatcher-worker/worker.js,     *)
(* with every `await` of the handlers as an interleaving point.            *)
(***************************************************************************)
EXTENDS Integers, Sequences, FiniteSets, TLC

(***************************************************************************)
(* Bounds of the model.                                                    *)
(***************************************************************************)
\* number of captains returned by the geo query (length of d.candidates)
NumCand == 2
\* number of times the queue hands the offer job to a worker
MaxDeliveries == 2
\* upper bound on the iterations of the 1 s poll loop inside one ack window
AckPolls == 1
\* number of requests to POST /ack-offer
MaxAckCalls == 2
\* largest raw travel time returned by the routing table
MaxDur == 2

CandIdx == 0 .. (NumCand - 1)
Runs == 1 .. MaxDeliveries

\* a duration the provider could not compute (JSON null)
Null == -1
\* boundSec absent from the request
NoBound == 0

VARIABLES
  status,        \* Dispatch.status: "none" before the document exists
  candidates,    \* Dispatch.candidates[i].status
  currentIndex,  \* Dispatch.currentIndex
  rideId,        \* Dispatch.rideId, 0 when unset, else an index into rides
  rides,         \* the Ride collection, in creation order
  offersQueue,   \* number of 'offer' jobs waiting in the ride_offers queue
  deliveries,    \* number of times the job was put on the queue
  events,        \* POSTs to the socket service /emit: how many times each
                 \* << event, candidate index >> was emitted
  wpc,           \* per job execution: position in the job handler
  wi,            \* per job execution: local variable i
  wpolls,        \* per job execution: iterations of the poll loop so far
  wride,         \* per job execution: local variable ride (index into rides)
  wloaded,       \* per job execution: d.status as read at line 35
  apc,           \* per caller of /ack-offer: position in the handler
  aaccepted,     \* per caller of /ack-offer: req.body.accepted
  ares,          \* per caller of /ack-offer: last HTTP response
  ackCalls,      \* number of requests to /ack-offer so far
  rideStatus,    \* the Ride of the ride endpoints: Ride.status
  rideCaptain,   \* the Ride of the ride endpoints: Ride.captain, 0 if unset
  spc,           \* per caller of /start-ride: position in the handler
  sknown,        \* per caller of /start-ride: rideId names the Ride
  sotp,          \* per caller of /start-ride: req.query.otp is the Ride's
  sres,          \* per caller of /start-ride: last HTTP response
  epc,           \* per caller of /end-ride: position in the handler
  eres,          \* per caller of /end-ride: last HTTP response
  idem,          \* Redis entry of the idempotency key: id of the stored
                 \* Ride, 0 when the key is absent
  created,       \* number of Rides created by POST /create
  cpc,           \* per request to /create: position in the handler
  cride,         \* per request to /create: local variable ride (its id)
  cres,          \* per request to /create: id of the Ride in the response
  dispatches,    \* number of Dispatch documents created by /offers/start
  jobs,          \* number of 'offer' jobs added by /offers/start
  dres,          \* per request to /offers/start: dispatchId in the response
  dcode,         \* per request to /offers/start: HTTP status of the
                 \* response, 0 while unanswered
  woffers,       \* per job execution: the candidate indexes it posted a
                 \* 'ride-offer' for, in order
  wemit,         \* per job execution: outcome of its last 'ride-offer'
                 \* POST: "none" before the first, "ok" or "failed"
  mockMode,      \* maps-service: useMock() && !routingBase
  etaRedis,      \* maps-service: a Redis client is configured
  etaBound,      \* GET /multi-eta: req.query.boundSec of the request key
  routingTable,  \* the routing provider's current durations, per source
  etaCache,      \* Redis entry of the request's cacheKey (empty or one
                 \* payload)
  etaRes,        \* GET /multi-eta: the last payload answered (empty
                 \* before the first answer)
  now,           \* users-service: the clock, in half days
  iat,           \* per session token: time of issue, -1 if never issued
  blacklist,     \* per session token: createdAt of its BlacklistToken
                 \* document, -1 when there is none
  lpc,           \* per session token: position of GET /logout presenting it
  loggedOut,     \* per session token: a logout presenting it was answered
  ppc,           \* per caller of GET /profile: position in the handler
  ptoken,        \* per caller of GET /profile: the token presented
  plate,         \* per caller of GET /profile: the request was sent after
                 \* a logout presenting its token had been answered
  pres,          \* per caller of GET /profile: last HTTP response
  sHasCoord,     \* /offers/start: per captain found, location.coordinates
                 \* is an array
  sTravel,       \* /offers/start: per captain found, the provider's travel
                 \* time from the captain's position to the pickup
  sBound,        \* /offers/start: req.body.boundSec
  sMock,         \* /offers/start: the maps-service runs its mock
  sMl,           \* /offers/start: ML_BASE_URL is set
  sCal,          \* /offers/start: per source, calibratedDuration of the
                 \* calibration call, Null when it failed
  doc,           \* /offers/start: the Dispatch document created (empty
                 \* before, one record after)
  sCode,         \* /offers/start: HTTP status of the response, 0 before
  rOutcomes,     \* requestWithRetry: per call of fn, 0 when it throws, else
                 \* the value it resolves to
  rI,            \* requestWithRetry: local variable i
  rPc,           \* requestWithRetry: position: "try", "delay", "returned",
                 \* "thrown"
  rCalls,        \* requestWithRetry: number of calls of fn so far
  rDelays,       \* requestWithRetry: the waits made so far, in ms
  rLastErr,      \* requestWithRetry: local variable lastErr, as the number
                 \* of the call that threw it, Null when unset
  rResult,       \* requestWithRetry: the value returned or the error
                 \* thrown, Null before
  mStatus,       \* per Dispatch: Dispatch.status, "none" before it exists
  mCand,         \* per Dispatch: status of its candidate, the shared captain
  mpc,           \* per Dispatch: position of the worker execution of its job
  captainStatus, \* Captain.status of the shared captain
  mRides,        \* the Rides created for the shared captain: the set of the
                 \* Dispatches a Ride in status accepted was created for
  alPc,          \* attemptAllocation: position: "send", "wait", "done"
  alIdx,         \* attemptAllocation: index of the loop's driver in
                 \* scoredDrivers
  alAttempts,    \* attemptAllocation: local variable attemptCount
  pendingAllocations, \* this.pendingAllocations.get(allocationId): the
                 \* driver of the entry, Null when there is no entry
  drvStatus,     \* per driver: field status of the Redis hash driver:<id>
  alRejected,    \* the Redis set ride:<rideId>:rejected_drivers
  alAsked,       \* the drivers a RIDE_REQUEST was published to
  alAnswered,    \* per driver: the response handled, "none" before
  alHandling,    \* the driver whose accepting response is being handled,
                 \* between the delete of the entry and resolve, else Null
  alResult,      \* the driver attemptAllocation returned, Null for null or
                 \* while it runs
  refreshStore,  \* Redis: the refresh tokens with a refresh:users:<rt> key
  fNext,         \* number of refresh tokens generated so far
  fpc,           \* per caller of /refresh: position in the handler
  ftoken,        \* per caller of /refresh: the refresh token in its cookie
  fres,          \* per caller of /refresh: HTTP status, 0 while unanswered
  fnew,          \* per caller of /refresh: the refresh token in the answer
  flate,         \* per caller of /refresh: its token had been rotated or
                 \* logged out before the handler read it
  fspent         \* the refresh tokens a /refresh answered 200 for or a
                 \* /logout was made with

dispatchVars == << status, candidates, currentIndex, rideId >>
workerVars == << wpc, wi, wpolls, wride, wloaded, woffers, wemit >>
ackVars == << apc, aaccepted, ares, ackCalls >>
rideVars == << rideStatus, rideCaptain, spc, sknown, sotp, sres, epc, eres >>
idemVars == << idem, created, cpc, cride, cres, dispatches, jobs, dres,
              dcode >>
etaVars == << mockMode, etaRedis, etaBound, routingTable, etaCache, etaRes >>
authVars == << now, iat, blacklist, lpc, loggedOut, ppc, ptoken, plate, pres >>
\* GET /multi-eta of maps-service and the session endpoints of users-service
startVars == << sHasCoord, sTravel, sBound, sMock, sMl, sCal, doc, sCode >>
\* the requests modelled one by one further down
retryVars == << rOutcomes, rI, rPc, rCalls, rDelays, rLastErr, rResult >>
multiVars == << mStatus, mCand, mpc, captainStatus, mRides >>
allocVars == << alPc, alIdx, alAttempts, pendingAllocations, drvStatus,
               alRejected, alAsked, alAnswered, alHandling, alResult >>
refreshVars == << refreshStore, fNext, fpc, ftoken, fres, fnew, flate,
                 fspent >>
laterVars == << retryVars, multiVars, allocVars, refreshVars >>
restVars == << startVars, laterVars >>
auxVars == << etaVars, authVars, restVars >>

\* the Dispatch, the worker and /ack-offer
engineVars == << dispatchVars, rides, offersQueue, deliveries, events,
                workerVars, ackVars >>

vars == << engineVars, rideVars, idemVars, auxVars >>

\* callers of /ack-offer: every candidate captain and one captain that is
\* not in d.candidates
Stranger == NumCand
Callers == 0 .. NumCand

(***************************************************************************)
(* maps-service GET /multi-eta and rides-service computeDispatch.          *)
(***************************************************************************)
DurVals == {Null} \cup (1 .. MaxDur)

\* durations.map(d => (d <= Number(boundSec) ? d : null)); null <= n is
\* true in JavaScript, so a null entry stays null
Filtered(durations, boundSec) ==
  [ i \in CandIdx |->
      IF boundSec = NoBound THEN durations[i]
      ELSE IF durations[i] = Null \/ durations[i] <= boundSec
           THEN durations[i] ELSE Null ]

\* the reduce with d <= filtered[best]: the last of several smallest entries
RECURSIVE ReduceBest_lastOnTies(_, _)
ReduceBest_lastOnTies(filtered, n) ==
  IF n = 0 THEN -1
  ELSE LET best == ReduceBest_lastOnTies(filtered, n - 1)
           i == n - 1
           d == filtered[i]
       IN IF d # Null /\ (best < 0 \/ d <= filtered[best]) THEN i ELSE best

\* filtered.reduce((best, d, i) =>
\*    (d !== null && (best < 0 || d < filtered[best]) ? i : best), -1)
\* over the first n entries
RECURSIVE ReduceBest(_, _)
ReduceBest(filtered, n) ==
  IF n = 0 THEN -1
  ELSE LET best == ReduceBest(filtered, n - 1)
           i == n - 1
           d == filtered[i]
       IN IF d # Null /\ (best < 0 \/ d < filtered[best]) THEN i ELSE best

MultiEta(durations, boundSec) ==
  LET filtered == Filtered(durations, boundSec)
  IN [ durations |-> filtered, bestIndex |-> ReduceBest(filtered, NumCand) ]

\* computeDispatch: the bounded query, then the unbounded one when the
\* bounded query yields no best entry
ComputeDispatch(durations, boundSec) ==
  LET r == MultiEta(durations, boundSec)
  IN IF boundSec # NoBound
        /\ (r.bestIndex = -1 \/ \A i \in CandIdx : r.durations[i] = Null)
     THEN MultiEta(durations, NoBound)
     ELSE r

\* Math.max(0, bestIndex || 0)
Max0(n) == IF n > 0 THEN n ELSE 0

\* the events the worker posts to the socket service
EventNames == {"ride-offer", "ride-offer-accepted", "ride-assigned"}

\* axios.post(`${socketBase}/emit`, { socketId, event, data })
Emit(evs, event, i) == [evs EXCEPT ![<< event, i >>] = @ + 1]

(***************************************************************************)
(* Initial state: no Dispatch document, no Ride, empty queue.              *)
(***************************************************************************)
EngineInit ==
  /\ status = "none"
  /\ candidates = [ i \in CandIdx |-> "pending" ]
  /\ currentIndex = 0
  /\ rideId = 0
  /\ rides = << >>
  /\ offersQueue = 0
  /\ deliveries = 0
  /\ events = [ e \in EventNames \X CandIdx |-> 0 ]
  /\ wpc = [ w \in Runs |-> "idle" ]
  /\ wi = [ w \in Runs |-> 0 ]
  /\ wpolls = [ w \in Runs |-> 0 ]
  /\ wride = [ w \in Runs |-> 0 ]
  /\ wloaded = [ w \in Runs |-> "none" ]
  /\ woffers = [ w \in Runs |-> << >> ]
  /\ wemit = [ w \in Runs |-> "none" ]
  /\ apc = [ k \in Callers |-> "idle" ]
  /\ aaccepted = [ k \in Callers |-> FALSE ]
  /\ ares = [ k \in Callers |-> "none" ]
  /\ ackCalls = 0

\* the callers of the ride endpoints
NumCaptains == 2
Captains == 1 .. NumCaptains

\* the identical requests sent to /create and to /offers/start
NumRequests == 2
Requests == 1 .. NumRequests

\* no request to a ride endpoint was made yet
RideCallersInit ==
  /\ spc = [ c \in Captains |-> "idle" ]
  /\ sknown = [ c \in Captains |-> FALSE ]
  /\ sotp = [ c \in Captains |-> FALSE ]
  /\ sres = [ c \in Captains |-> "none" ]
  /\ epc = [ c \in Captains |-> "idle" ]
  /\ eres = [ c \in Captains |-> "none" ]

\* no request to /create or /offers/start was made yet, key absent
IdemInit ==
  /\ idem = 0
  /\ created = 0
  /\ cpc = [ r \in Requests |-> "idle" ]
  /\ cride = [ r \in Requests |-> 0 ]
  /\ cres = [ r \in Requests |-> 0 ]
  /\ dispatches = 0
  /\ jobs = 0
  /\ dres = [ r \in Requests |-> 0 ]
  /\ dcode = [ r \in Requests |-> 0 ]

\* session tokens and callers of GET /profile in users-service
NumTokens == 1
Tokens == 1 .. NumTokens
NumProfiles == 2
Profiles == 1 .. NumProfiles
\* last tick of the clock
MaxTime == 2
\* the raw duration the mock of GET /multi-eta answers for every source
MockDur == 300

\* no request to GET /multi-eta was made
EtaIdle ==
  /\ mockMode = FALSE
  /\ etaRedis = FALSE
  /\ etaBound = NoBound
  /\ routingTable = [ i \in CandIdx |-> 1 ]
  /\ etaCache = {}
  /\ etaRes = {}

\* no session token was issued, no request to /profile or /logout was made
AuthIdle ==
  /\ now = 0
  /\ iat = [ t \in Tokens |-> -1 ]
  /\ blacklist = [ t \in Tokens |-> -1 ]
  /\ lpc = [ t \in Tokens |-> "idle" ]
  /\ loggedOut = [ t \in Tokens |-> FALSE ]
  /\ ppc = [ p \in Profiles |-> "idle" ]
  /\ ptoken = [ p \in Profiles |-> 1 ]
  /\ plate = [ p \in Profiles |-> FALSE ]
  /\ pres = [ p \in Profiles |-> "none" ]

\* no request to POST /offers/start with its inputs spelled out
StartIdle ==
  /\ sHasCoord = [ i \in CandIdx |-> TRUE ]
  /\ sTravel = [ i \in CandIdx |-> 1 ]
  /\ sBound = NoBound
  /\ sMock = FALSE
  /\ sMl = FALSE
  /\ sCal = [ i \in CandIdx |-> Null ]
  /\ doc = {}
  /\ sCode = 0

\* requestWithRetry(fn, retries = 3, backoff = 200)
Retries == 3
Backoff == 200
\* the values fn resolves to are 1 .. MaxVal
MaxVal == 2
Attempts == 0 .. Retries

\* requestWithRetry was not called
RetryIdle ==
  /\ rOutcomes = [ i \in Attempts |-> 1 ]
  /\ rI = 0
  /\ rPc = "try"
  /\ rCalls = 0
  /\ rDelays = << >>
  /\ rLastErr = Null
  /\ rResult = Null

\* the Dispatches that have the same captain as their candidate
NumDispatches == 2
Dispatches == 1 .. NumDispatches

\* no Dispatch with the shared captain exists, the captain is active
MultiIdle ==
  /\ mStatus = [ d \in Dispatches |-> "none" ]
  /\ mCand = [ d \in Dispatches |-> "pending" ]
  /\ mpc = [ d \in Dispatches |-> "idle" ]
  /\ captainStatus = "active"
  /\ mRides = {}

\* scoredDrivers of one allocation, best first
NumDrivers == 3
Drivers == 0 .. (NumDrivers - 1)
\* this.MAX_ALLOCATION_ATTEMPTS = 3
MAX_ALLOCATION_ATTEMPTS == 3

\* attemptAllocation was called and has sent nothing yet
AllocIdle ==
  /\ alPc = "send"
  /\ alIdx = 0
  /\ alAttempts = 0
  /\ pendingAllocations = Null
  /\ drvStatus = [ d \in Drivers |-> "available" ]
  /\ alRejected = {}
  /\ alAsked = {}
  /\ alAnswered = [ d \in Drivers |-> "none" ]
  /\ alHandling = Null
  /\ alResult = Null

\* the requests to POST /refresh of users-service
NumRefreshers == 3
Refreshers == 1 .. NumRefreshers

\* a login stored refresh token 0, no /refresh or /logout was made
RefreshIdle ==
  /\ refreshStore = {0}
  /\ fNext = 1
  /\ fpc = [ c \in Refreshers |-> "idle" ]
  /\ ftoken = [ c \in Refreshers |-> 0 ]
  /\ fres = [ c \in Refreshers |-> 0 ]
  /\ fnew = [ c \in Refreshers |-> Null ]
  /\ flate = [ c \in Refreshers |-> FALSE ]
  /\ fspent = {}

LaterIdle == RetryIdle /\ MultiIdle /\ AllocIdle /\ RefreshIdle

\* nothing of the requests modelled one by one has happened
RestIdle == StartIdle /\ LaterIdle

Init ==
  /\ EngineInit
  /\ rideStatus = "none"
  /\ rideCaptain = 0
  /\ RideCallersInit
  /\ IdemInit
  /\ EtaIdle
  /\ AuthIdle
  /\ RestIdle

(***************************************************************************)
(* POST /offers/start with a non-empty captain list.                       *)
(***************************************************************************)
StartDispatch ==
  /\ status = "none"
  /\ \E durations \in [ CandIdx -> DurVals ], boundSec \in {NoBound} \cup (1 .. MaxDur) :
       currentIndex' = Max0(ComputeDispatch(durations, boundSec).bestIndex)
  /\ candidates' = [ i \in CandIdx |-> "pending" ]
  /\ status' = "pending"
  /\ offersQueue' = offersQueue + 1
  /\ deliveries' = deliveries + 1
  /\ UNCHANGED << rideVars, idemVars, auxVars, rideId, rides, events,
                  workerVars, ackVars >>

(***************************************************************************)
(* The ride_offers queue.  BullMQ delivers a job at least once: a job      *)
(* whose lock expired (crashed or stalled worker) is moved back to the     *)
(* wait list and handed to a worker again, whether or not the first        *)
(* execution is still running.                                             *)
(***************************************************************************)
Redeliver ==
  /\ deliveries < MaxDeliveries
  /\ \E w \in Runs : wpc[w] # "idle"
  /\ offersQueue' = offersQueue + 1
  /\ deliveries' = deliveries + 1
  /\ UNCHANGED << rideVars, idemVars, auxVars, dispatchVars, rides, events,
                  workerVars, ackVars >>

(***************************************************************************)
(* The job handler of the dispatcher worker.                               *)
(***************************************************************************)
\* the guard of line 36 left out: the handler runs whatever d.status is
LoadReturns_dropped(dStatus) == FALSE

\* line 36: if (!d || d.status !== 'pending') return;
LoadReturns(dStatus) == dStatus # "pending"

\* lines 32-38: a worker takes the job off the queue, loads the Dispatch,
\* returns unless it is pending, i = currentIndex
WorkerLoad(w) ==
  /\ offersQueue > 0
  /\ wpc[w] = "idle"
  /\ \A v \in Runs : v < w => wpc[v] # "idle"
  /\ offersQueue' = offersQueue - 1
  /\ wloaded' = [wloaded EXCEPT ![w] = status]
  /\ IF LoadReturns(status)
     THEN /\ wpc' = [wpc EXCEPT ![w] = "done"]
          /\ wi' = wi
     ELSE /\ wpc' = [wpc EXCEPT ![w] = "loop"]
          /\ wi' = [wi EXCEPT ![w] = currentIndex]
  /\ UNCHANGED << rideVars, idemVars, auxVars, dispatchVars, rides,
                  deliveries, events, wpolls, wride, ackVars, woffers,
                  wemit >>

\* a failed POST leaves the handler
OfferAborts_onFailure(ok) == ~ ok

\* lines 42-48: try { await axios.post(.../emit, ...) } catch (_) {}
\* whether the outcome of the POST ends the execution
OfferAborts(ok) == FALSE

\* lines 39-53: loop test, emit 'ride-offer' to candidates[i] (the POST
\* succeeds or throws), open the window
WorkerOffer(w) ==
  /\ wpc[w] = "loop"
  /\ wi[w] < NumCand
  /\ events' = Emit(events, "ride-offer", wi[w])
  /\ woffers' = [woffers EXCEPT ![w] = Append(@, wi[w])]
  /\ \E ok \in BOOLEAN :
       /\ wemit' = [wemit EXCEPT ![w] = IF ok THEN "ok" ELSE "failed"]
       /\ IF OfferAborts(ok)
          THEN /\ wpc' = [wpc EXCEPT ![w] = "done"]
               /\ wpolls' = wpolls
          ELSE /\ wpc' = [wpc EXCEPT ![w] = "poll"]
               /\ wpolls' = [wpolls EXCEPT ![w] = 0]
  /\ UNCHANGED << rideVars, idemVars, auxVars, dispatchVars, rides,
                  offersQueue, deliveries, wi, wride, wloaded, ackVars >>

\* line 56: if (!cur || cur.status !== 'pending') return;
PollReturns(curStatus) == curStatus # "pending"

\* lines 54-59: one iteration of the poll loop inside the ack window
WorkerPoll(w) ==
  /\ wpc[w] = "poll"
  /\ wpolls[w] < AckPolls
  /\ IF PollReturns(status)
     THEN /\ wpc' = [wpc EXCEPT ![w] = "done"]
          /\ wpolls' = wpolls
     ELSE IF candidates[wi[w]] = "ack"
     THEN /\ wpc' = [wpc EXCEPT ![w] = "acked"]
          /\ wpolls' = wpolls
     ELSE /\ wpc' = wpc
          /\ wpolls' = [wpolls EXCEPT ![w] = wpolls[w] + 1]
  /\ UNCHANGED << rideVars, idemVars, auxVars, dispatchVars, rides,
                  offersQueue, deliveries, events, wi, wride, wloaded,
                  ackVars, woffers, wemit >>

\* lines 67-72: fare from GET /get-fare, 0 when the call fails
Fares == {0, 1}

\* lines 64-78: fare lookup and Ride.create({..., fare, status: 'accepted'})
WorkerCreateRide(w) ==
  /\ wpc[w] = "acked"
  /\ \E fare \in Fares :
       rides' = Append(rides, [ status |-> "accepted", fare |-> fare ])
  /\ wride' = [wride EXCEPT ![w] = Len(rides) + 1]
  /\ wpc' = [wpc EXCEPT ![w] = "commit"]
  /\ UNCHANGED << rideVars, idemVars, auxVars, dispatchVars, offersQueue,
                  deliveries, events, wi, wpolls, wloaded, ackVars, woffers,
                  wemit >>

\* line 79: Dispatch.findByIdAndUpdate(dispatchId, { status: 'assigned',
\*   currentIndex: i, rideId: ride._id, candidates.i.status: 'assigned' })
WorkerCommit(w) ==
  /\ wpc[w] = "commit"
  /\ status' = "assigned"
  /\ currentIndex' = wi[w]
  /\ rideId' = wride[w]
  /\ candidates' = [candidates EXCEPT ![wi[w]] = "assigned"]
  /\ wpc' = [wpc EXCEPT ![w] = "notifyCaptain"]
  /\ UNCHANGED << rideVars, idemVars, auxVars, rides, offersQueue, deliveries,
                  events, wi, wpolls, wride, wloaded, ackVars, woffers,
                  wemit >>

\* lines 81-83 left out: the captain is not notified
WorkerNotifyCaptain_silent(w) ==
  /\ wpc[w] = "notifyCaptain"
  /\ wpc' = [wpc EXCEPT ![w] = "notifyUser"]
  /\ UNCHANGED << rideVars, idemVars, auxVars, dispatchVars, rides,
                  offersQueue, deliveries, events, wi, wpolls, wride, wloaded,
                  ackVars, woffers, wemit >>

\* lines 81-83: emit 'ride-offer-accepted' to the captain
WorkerNotifyCaptain(w) ==
  /\ wpc[w] = "notifyCaptain"
  /\ events' = Emit(events, "ride-offer-accepted", wi[w])
  /\ wpc' = [wpc EXCEPT ![w] = "notifyUser"]
  /\ UNCHANGED << rideVars, idemVars, auxVars, dispatchVars, rides,
                  offersQueue, deliveries, wi, wpolls, wride, wloaded,
                  ackVars, woffers, wemit >>

\* lines 85-91: emit 'ride-assigned' to the user when the user has a
\* socketId, return
WorkerNotifyUser(w) ==
  /\ wpc[w] = "notifyUser"
  /\ \E hasSocketId \in BOOLEAN :
       events' = IF hasSocketId THEN Emit(events, "ride-assigned", wi[w])
                 ELSE events
  /\ wpc' = [wpc EXCEPT ![w] = "done"]
  /\ UNCHANGED << rideVars, idemVars, auxVars, dispatchVars, rides,
                  offersQueue, deliveries, wi, wpolls, wride, wloaded,
                  ackVars, woffers, wemit >>

\* the timeout write without the i++ of line 95
WorkerTimeout_sameCandidate(w) ==
  /\ wpc[w] = "poll"
  /\ wpolls[w] >= 1
  /\ candidates' = [candidates EXCEPT ![wi[w]] = "timeout"]
  /\ currentIndex' = wi[w] + 1
  /\ wpc' = [wpc EXCEPT ![w] = "loop"]
  /\ UNCHANGED << rideVars, idemVars, auxVars, status, rideId, rides,
                  offersQueue, deliveries, events, wi, wpolls, wride, wloaded,
                  ackVars, woffers, wemit >>

\* line 54: the window elapsed, Date.now() - started >= ackSec * 1000, with
\* acked false (ackSec >= 5, so the loop body ran at least once);
\* lines 94-96: Dispatch.findByIdAndUpdate(dispatchId,
\*   { candidates.i.status: 'timeout', currentIndex: i + 1 }); i++
WorkerTimeout(w) ==
  /\ wpc[w] = "poll"
  /\ wpolls[w] >= 1
  /\ candidates' = [candidates EXCEPT ![wi[w]] = "timeout"]
  /\ currentIndex' = wi[w] + 1
  /\ wi' = [wi EXCEPT ![w] = wi[w] + 1]
  /\ wpc' = [wpc EXCEPT ![w] = "loop"]
  /\ UNCHANGED << rideVars, idemVars, auxVars, status, rideId, rides,
                  offersQueue, deliveries, events, wpolls, wride, wloaded,
                  ackVars, woffers, wemit >>

\* the loop exit without the write of line 101
WorkerNoCandidate_noWrite(w) ==
  /\ wpc[w] = "loop"
  /\ wi[w] >= NumCand
  /\ wpc' = [wpc EXCEPT ![w] = "done"]
  /\ UNCHANGED << rideVars, idemVars, auxVars, dispatchVars, rides,
                  offersQueue, deliveries, events, wi, wpolls, wride, wloaded,
                  ackVars, woffers, wemit >>

\* lines 39, 101: loop exit, Dispatch.findByIdAndUpdate(dispatchId,
\*   { status: 'cancelled' })
WorkerNoCandidate(w) ==
  /\ wpc[w] = "loop"
  /\ wi[w] >= NumCand
  /\ status' = "cancelled"
  /\ wpc' = [wpc EXCEPT ![w] = "done"]
  /\ UNCHANGED << rideVars, idemVars, auxVars, candidates, currentIndex,
                  rideId, rides, offersQueue, deliveries, events, wi, wpolls,
                  wride, wloaded, ackVars, woffers, wemit >>

(***************************************************************************)
(* POST /ack-offer.                                                        *)
(***************************************************************************)
\* line 350: if (!d || d.status !== 'pending') return 404
\* line 352: if (idx < 0) return 404
AckRejects(dStatus, k) == dStatus # "pending" \/ k \notin CandIdx

\* lines 349-353: read the Dispatch, locate the captain
AckRead(k, accepted) ==
  /\ apc[k] = "idle"
  /\ ackCalls < MaxAckCalls
  /\ ackCalls' = ackCalls + 1
  /\ IF AckRejects(status, k)
     THEN /\ ares' = [ares EXCEPT ![k] = "404"]
          /\ apc' = apc
          /\ aaccepted' = aaccepted
     ELSE /\ apc' = [apc EXCEPT ![k] = "write"]
          /\ aaccepted' = [aaccepted EXCEPT ![k] = accepted]
          /\ ares' = [ares EXCEPT ![k] = "none"]
  /\ UNCHANGED << rideVars, idemVars, auxVars, dispatchVars, rides,
                  offersQueue, deliveries, events, workerVars >>

\* accepted ? 'ack' : 'rejected'
AckStatus(accepted) == IF accepted THEN "ack" ELSE "rejected"

\* the update replacing the status of every candidate
AckWritten_wholeList(cands, k, accepted) ==
  [ i \in CandIdx |-> AckStatus(accepted) ]

\* line 354: updateOne({ _id }, { $set: { candidates.idx.status: ... } })
AckWritten(cands, k, accepted) == [cands EXCEPT ![k] = AckStatus(accepted)]

\* lines 354-355: write the status, answer { ok: true }
AckWrite(k) ==
  /\ apc[k] = "write"
  /\ candidates' = AckWritten(candidates, k, aaccepted[k])
  /\ ares' = [ares EXCEPT ![k] = IF aaccepted[k] THEN "200:accept" ELSE "200:reject"]
  /\ apc' = [apc EXCEPT ![k] = "idle"]
  /\ aaccepted' = [aaccepted EXCEPT ![k] = FALSE]
  /\ UNCHANGED << rideVars, idemVars, auxVars, status, currentIndex, rideId,
                  rides, offersQueue, deliveries, events, workerVars,
                  ackCalls >>

(***************************************************************************)
(* cancelDispatch: sets outcome = cancelled if outcome = pending.          *)
(***************************************************************************)
CancelDispatch ==
  /\ status = "pending"
  /\ status' = "cancelled"
  /\ UNCHANGED << rideVars, idemVars, auxVars, candidates, currentIndex,
                  rideId, rides, offersQueue, deliveries, events, workerVars,
                  ackVars >>

Next ==
  \/ StartDispatch
  \/ Redeliver
  \/ CancelDispatch
  \/ \E w \in Runs : WorkerLoad(w)
  \/ \E w \in Runs : WorkerOffer(w)
  \/ \E w \in Runs : WorkerPoll(w)
  \/ \E w \in Runs : WorkerCreateRide(w)
  \/ \E w \in Runs : WorkerCommit(w)
  \/ \E w \in Runs : WorkerNotifyCaptain(w)
  \/ \E w \in Runs : WorkerNotifyUser(w)
  \/ \E w \in Runs : WorkerTimeout(w)
  \/ \E w \in Runs : WorkerNoCandidate(w)
  \/ \E k \in Callers, accepted \in BOOLEAN : AckRead(k, accepted)
  \/ \E k \in Callers : AckWrite(k)

Spec == Init /\ [][Next]_vars

\* one execution of the job handler: the steps of run w
WorkerStep(w) ==
  \/ WorkerLoad(w)
  \/ WorkerOffer(w)
  \/ WorkerPoll(w)
  \/ WorkerCreateRide(w)
  \/ WorkerCommit(w)
  \/ WorkerNotifyCaptain(w)
  \/ WorkerNotifyUser(w)
  \/ WorkerTimeout(w)
  \/ WorkerNoCandidate(w)

\* the worker process is up: it takes a waiting job, and an await of a
\* running handler returns
SpecLive == Spec /\ WF_vars(\E w \in Runs : WorkerStep(w))

TypeOK ==
  /\ status \in {"none", "pending", "assigned", "cancelled"}
  /\ candidates \in [CandIdx -> {"pending", "ack", "rejected", "timeout", "assigned"}]
  /\ currentIndex \in 0 .. NumCand
  /\ rideId \in 0 .. Len(rides)
  /\ woffers \in [Runs -> Seq(CandIdx)]
  /\ wemit \in [Runs -> {"none", "ok", "failed"}]

(***************************************************************************)
(* Properties of the Dispatch record.                                      *)
(***************************************************************************)
Assigned == { i \in CandIdx : candidates[i] = "assigned" }

Offers(evs) == [ i \in CandIdx |-> evs[<< "ride-offer", i >>] ]

\* C1: a Dispatch whose outcome is assigned has exactly one candidate with
\* status assigned and a rideId that refers to an existing Ride of status
\* accepted; rideId is set only when the outcome is assigned.
C1_AssignedHasOneCandidateAndRide ==
  /\ status = "assigned" =>
       /\ Cardinality(Assigned) = 1
       /\ rideId \in 1 .. Len(rides)
       /\ rides[rideId].status = "accepted"
  /\ rideId # 0 => status = "assigned"

\* C2: at most one candidate has status assigned, and a candidate with
\* status assigned sits at the cursor of a Dispatch whose outcome is assigned.
C2_AssignedCandidateAtCursor ==
  /\ Cardinality(Assigned) <= 1
  /\ \A i \in Assigned : i = currentIndex /\ status = "assigned"

\* C3: of two ackOffer(accepted=true) calls by two different candidates of
\* the same Dispatch at most one is answered with success.
C3_AtMostOneAcceptSucceeds ==
  \A j, k \in CandIdx :
    j # k => ~ (ares[j] = "200:accept" /\ ares[k] = "200:accept")

\* C4: an ackOffer(accepted=true) that reaches its write for a candidate
\* whose status is timedOut is not answered with success and leaves the
\* Dispatch as it was.
C4_LateAcceptIsGone ==
  [][ \A k \in CandIdx :
        ( /\ apc[k] = "write" /\ apc'[k] = "idle"
          /\ aaccepted[k]
          /\ candidates[k] = "timeout" )
        => ( /\ ares'[k] \notin {"200:accept", "200:reject"}
             /\ dispatchVars' = dispatchVars ) ]_vars

\* C5: once the outcome of the Dispatch is cancelled the worker emits no
\* further ride-offer event.
C5_NoOfferAfterCancel ==
  [][ status = "cancelled" => Offers(events') = Offers(events) ]_vars

\* C6: the outcome changes only from pending to a terminal value and a
\* terminal outcome never changes again.
C6_OutcomeTerminal ==
  [][ status' # status =>
        \/ status = "none" /\ status' = "pending"
        \/ status = "pending" /\ status' \in {"assigned", "cancelled"} ]_vars

\* the edges of the candidate status graph: pending -> offered ->
\* {acked, rejected, timedOut, skipped}, acked -> assigned
StatusEdges ==
  { << "pending", "offered" >>, << "offered", "ack" >>,
    << "offered", "rejected" >>, << "offered", "timeout" >>,
    << "offered", "skipped" >>, << "ack", "assigned" >> }

\* C7: every change of a candidate's status follows an edge of the status
\* graph.
C7_StatusForwardOnly ==
  [][ \A i \in CandIdx :
        candidates'[i] # candidates[i] =>
          << candidates[i], candidates'[i] >> \in StatusEdges ]_vars

\* C8: every candidate below the cursor has a terminal status, neither
\* pending nor offered.
C8_BelowCursorTerminal ==
  status # "none" =>
    \A i \in CandIdx :
      i < currentIndex => candidates[i] \notin {"pending", "offered"}

\* C9: the cursor never decreases.
C9_CursorMonotonic ==
  [][ currentIndex' >= currentIndex ]_vars

\* C10: an execution of the offer task that loads a Dispatch whose outcome
\* is not pending returns at once: it writes nothing to the Dispatch, emits
\* no event and creates no Ride, and it never does so later either.
C10_ReplayOnTerminalIsNoOp ==
  /\ [][ \A w \in Runs :
           ( wpc[w] = "idle" /\ wpc'[w] # "idle" /\ status # "pending" )
           => ( /\ wpc'[w] = "done"
                /\ dispatchVars' = dispatchVars
                /\ rides' = rides
                /\ events' = events ) ]_vars
  /\ [] ( \A w \in Runs :
            wloaded[w] \in {"assigned", "cancelled"}
            => wpc[w] = "done" /\ wride[w] = 0 )

\* a redelivered execution has returned on a Dispatch that was already
\* assigned, after the first execution created the Ride
C10_Witness ==
  \E v, w \in Runs :
    /\ v # w
    /\ wride[v] # 0 /\ wpc[v] = "done"
    /\ wloaded[w] = "assigned" /\ wpc[w] = "done"
    /\ Len(rides) = 1

\* the request of caller k to /ack-offer performs its write in this step
AckWrites(k) == apc[k] = "write" /\ apc'[k] = "idle"

Success == {"200:accept", "200:reject"}

\* C11: an ackOffer call on a Dispatch whose outcome is not pending, or by a
\* driver that is not a candidate, is not answered with success and does
\* not modify the Dispatch, also when the outcome becomes non-pending
\* between the read and the write of the endpoint.
C11_AckOnTerminalChangesNothing ==
  [][ \A k \in Callers :
        /\ ( apc[k] = "idle" /\ apc'[k] = "write" )
             => ( status = "pending" /\ k \in CandIdx )
        /\ ( AckWrites(k) /\ status # "pending" )
             => ( ares'[k] \notin Success /\ dispatchVars' = dispatchVars )
    ]_vars

\* candidate k is being offered: its status is offered; the code has no
\* write of 'offered', there the candidate is pending with a ride-offer
\* emitted
IsOffered(k) ==
  \/ candidates[k] = "offered"
  \/ candidates[k] = "pending" /\ events[<< "ride-offer", k >>] > 0

\* C12: ackOffer changes a candidate's status only when that candidate is
\* currently offered; for a candidate in any other status the call is not
\* answered with success and the Dispatch is unchanged.
C12_AckOnlyFromOffered ==
  [][ \A k \in CandIdx :
        AckWrites(k) =>
          IF IsOffered(k)
          THEN candidates'[k] = AckStatus(aaccepted[k])
          ELSE ares'[k] \notin Success /\ dispatchVars' = dispatchVars
    ]_vars

\* C13: ackOffer changes nothing in the Dispatch but the status of the
\* candidate named by the caller: cursor, outcome, rideId and the status of
\* every other candidate are the same before and after the call.
C13_AckFrame ==
  [][ /\ ackCalls' # ackCalls => dispatchVars' = dispatchVars
      /\ \A k \in Callers :
           AckWrites(k) =>
             /\ status' = status
             /\ currentIndex' = currentIndex
             /\ rideId' = rideId
             /\ \A j \in CandIdx : j # k => candidates'[j] = candidates[j]
    ]_vars

\* an accept was written for candidate k while another candidate had
\* already been timed out and the cursor had moved
C13_Witness ==
  \E j, k \in CandIdx :
    /\ j # k
    /\ ares[k] = "200:accept" /\ candidates[k] = "ack"
    /\ candidates[j] = "timeout"
    /\ currentIndex > 0
    /\ status = "pending"

\* C14: when the offer loop runs past the last candidate the outcome
\* becomes exhausted, an event (dispatch-failed) is emitted and no Ride
\* exists.
C14_ExhaustedAndDispatchFailed ==
  [][ \A w \in Runs :
        ( wpc[w] = "loop" /\ wi[w] >= NumCand /\ wpc'[w] = "done" )
        => ( /\ status' = "exhausted"
             /\ events' # events
             /\ rides' = << >> ) ]_vars

\* C15: ride-assigned for candidate i is emitted only after ride-offer and
\* ride-offer-accepted for candidate i, and ride-offer-accepted only after
\* ride-offer.
C15_AssignedAfterOfferAndAccepted ==
  [][ \A i \in CandIdx :
        /\ events'[<< "ride-assigned", i >>] > events[<< "ride-assigned", i >>]
             => /\ events[<< "ride-offer", i >>] > 0
                /\ events[<< "ride-offer-accepted", i >>] > 0
        /\ events'[<< "ride-offer-accepted", i >>]
             > events[<< "ride-offer-accepted", i >>]
             => events[<< "ride-offer", i >>] > 0 ]_vars

\* ride-assigned was emitted for an assigned Dispatch
C15_Witness ==
  \E i \in CandIdx :
    /\ events[<< "ride-assigned", i >>] > 0
    /\ status = "assigned"
    /\ rideId # 0

\* C19: every Ride that was created has fare > 0.
C19_FarePositive ==
  \A n \in 1 .. Len(rides) : rides[n].fare > 0

(***************************************************************************)
(* The ride endpoints of rides-service: POST /confirm, GET /start-ride,    *)
(* POST /end-ride, called by authenticated captains on one Ride.           *)
(***************************************************************************)
\* the Ride as created: by POST /create with the schema default 'pending'
\* and no captain, or by the worker with 'accepted' and the acked captain
InitRide ==
  /\ EngineInit
  /\ \/ rideStatus = "pending" /\ rideCaptain = 0
     \/ rideStatus = "accepted" /\ rideCaptain \in Captains
  /\ RideCallersInit
  /\ IdemInit
  /\ EtaIdle
  /\ AuthIdle
  /\ RestIdle

\* line 479: Ride.findByIdAndUpdate(rideId, { status: 'accepted',
\*   captain: decoded._id }), for the rideId of the Ride
Confirm(c) ==
  /\ rideStatus' = "accepted"
  /\ rideCaptain' = c
  /\ UNCHANGED << engineVars, idemVars, auxVars, spc, sknown, sotp, sres, epc,
                  eres >>

\* the OTP test of line 505 left out
StartRideRejects_noOtp(found, rStatus, otpOk) ==
  ~ found \/ rStatus # "accepted"

\* lines 503-505: 404 'Ride not found', 400 'Ride not accepted',
\* 400 'Invalid OTP'
StartRideRejects(found, rStatus, otpOk) ==
  ~ found \/ rStatus # "accepted" \/ ~ otpOk

\* lines 501-505: read the Ride with its otp and test it
StartRideRead(c, known, otpOk) ==
  /\ spc[c] = "idle"
  /\ sknown' = [sknown EXCEPT ![c] = known]
  /\ sotp' = [sotp EXCEPT ![c] = otpOk]
  /\ IF StartRideRejects(known, rideStatus, otpOk)
     THEN /\ sres' = [sres EXCEPT ![c] = IF known THEN "400" ELSE "404"]
          /\ spc' = spc
     ELSE /\ sres' = [sres EXCEPT ![c] = "none"]
          /\ spc' = [spc EXCEPT ![c] = "write"]
  /\ UNCHANGED << engineVars, idemVars, auxVars, rideStatus, rideCaptain, epc,
                  eres >>

\* lines 506-515: Ride.findByIdAndUpdate(rideId, { status: 'ongoing' }),
\* emit ride-started, answer 200
StartRideWrite(c) ==
  /\ spc[c] = "write"
  /\ rideStatus' = "ongoing"
  /\ sres' = [sres EXCEPT ![c] = "200"]
  /\ spc' = [spc EXCEPT ![c] = "idle"]
  /\ UNCHANGED << engineVars, idemVars, auxVars, rideCaptain, sknown, sotp,
                  epc, eres >>

\* lines 526-528: Ride.findOne({ _id: rideId, captain: decoded._id }),
\* 404 'Ride not found', 400 'Ride not ongoing'
EndRideRead(c, known) ==
  /\ epc[c] = "idle"
  /\ IF ~ (known /\ rideCaptain = c)
     THEN eres' = [eres EXCEPT ![c] = "404"] /\ epc' = epc
     ELSE IF rideStatus # "ongoing"
     THEN eres' = [eres EXCEPT ![c] = "400"] /\ epc' = epc
     ELSE eres' = [eres EXCEPT ![c] = "none"]
          /\ epc' = [epc EXCEPT ![c] = "write"]
  /\ UNCHANGED << engineVars, idemVars, auxVars, rideStatus, rideCaptain, spc,
                  sknown, sotp, sres >>

\* lines 529-538: Ride.findByIdAndUpdate(rideId, { status: 'completed' }),
\* emit ride-ended, answer 200
EndRideWrite(c) ==
  /\ epc[c] = "write"
  /\ rideStatus' = "completed"
  /\ eres' = [eres EXCEPT ![c] = "200"]
  /\ epc' = [epc EXCEPT ![c] = "idle"]
  /\ UNCHANGED << engineVars, idemVars, auxVars, rideCaptain, spc, sknown,
                  sotp, sres >>

NextRide ==
  \/ \E c \in Captains : Confirm(c)
  \/ \E c \in Captains, known \in BOOLEAN, otpOk \in BOOLEAN :
       StartRideRead(c, known, otpOk)
  \/ \E c \in Captains : StartRideWrite(c)
  \/ \E c \in Captains, known \in BOOLEAN : EndRideRead(c, known)
  \/ \E c \in Captains : EndRideWrite(c)

SpecRide == InitRide /\ [][NextRide]_vars

\* the edges of the Ride lifecycle: accepted -> ongoing -> completed, or
\* cancelled; a Ride created by /create is accepted by its first confirm
RideEdges ==
  { << "pending", "accepted" >>, << "accepted", "ongoing" >>,
    << "ongoing", "completed" >>, << "pending", "cancelled" >>,
    << "accepted", "cancelled" >>, << "ongoing", "cancelled" >> }

\* C18: over any interleaving of confirm, start-ride and end-ride the
\* status of a Ride moves only along the edges of the lifecycle.
C18_RideLifecycleForward ==
  [][ rideStatus' # rideStatus =>
        << rideStatus, rideStatus' >> \in RideEdges ]_vars

CreateGet(r) ==
  /\ cpc[r] = "idle"
  /\ IF idem # 0
     THEN /\ cres' = [cres EXCEPT ![r] = idem]
          /\ cpc' = [cpc EXCEPT ![r] = "done"]
     ELSE /\ cres' = cres
          /\ cpc' = [cpc EXCEPT ![r] = "create"]
  /\ UNCHANGED << engineVars, rideVars, auxVars, idem, created, cride,
                  dispatches, jobs, dres, dcode >>

\* lines 458-465: fare, Ride.create({ user, pickup, destination, otp, fare })
CreateRide(r) ==
  /\ cpc[r] = "create"
  /\ created' = created + 1
  /\ cride' = [cride EXCEPT ![r] = created + 1]
  /\ cpc' = [cpc EXCEPT ![r] = "setex"]
  /\ UNCHANGED << engineVars, rideVars, auxVars, idem, cres, dispatches, jobs,
                  dres, dcode >>

\* lines 466-468: redisPub.setex(key, 3600, JSON.stringify(out)); return 201
CreateSetex(r) ==
  /\ cpc[r] = "setex"
  /\ idem' = cride[r]
  /\ cres' = [cres EXCEPT ![r] = cride[r]]
  /\ cpc' = [cpc EXCEPT ![r] = "done"]
  /\ UNCHANGED << engineVars, rideVars, auxVars, created, cride, dispatches,
                  jobs, dres, dcode >>

\* lines 232-256 of POST /offers/start, for the number of captains that
\* computeDispatch found: 404 { message: 'No captains nearby' } for none,
\* else dispatch.create(...), offersQueue.add('offer', ...) and
\* 201 { dispatchId: doc._id, ... }
OffersStart(r) ==
  /\ dcode[r] = 0
  /\ \E captains \in 0 .. NumCand :
       IF captains = 0
       THEN /\ dcode' = [dcode EXCEPT ![r] = 404]
            /\ UNCHANGED << dispatches, jobs, dres >>
       ELSE /\ dispatches' = dispatches + 1
            /\ jobs' = jobs + 1
            /\ dres' = [dres EXCEPT ![r] = dispatches + 1]
            /\ dcode' = [dcode EXCEPT ![r] = 201]
  /\ UNCHANGED << engineVars, rideVars, auxVars, idem, created, cpc, cride,
                  cres >>

NextIdem ==
  \/ \E r \in Requests : CreateGet(r)
  \/ \E r \in Requests : CreateRide(r)
  \/ \E r \in Requests : CreateSetex(r)
  \/ \E r \in Requests : OffersStart(r)

SpecIdem == Init /\ [][NextIdem]_vars

\* C16: identical startDispatch requests inside the TTL return the same
\* dispatchId, create one Dispatch and enqueue one offer task.
C16_StartDispatchIdempotent ==
  /\ \A q, r \in Requests : (dres[q] # 0 /\ dres[r] # 0) => dres[q] = dres[r]
  /\ dispatches <= 1
  /\ jobs <= 1

\* C17: of the requests carrying one idempotency key exactly one creates
\* the Ride; every request returns that Ride, so at most one Ride exists
\* for the key.
C17_OneRidePerKey ==
  /\ created <= 1
  /\ \A q, r \in Requests :
       (cpc[q] = "done" /\ cpc[r] = "done") => cres[q] = cres[r]

(***************************************************************************)
(* maps-service GET /multi-eta for one request key (sources, destination,  *)
(* boundSec), with the routing table of the provider changing over time.   *)
(***************************************************************************)
Bounds == {NoBound} \cup (1 .. MaxDur)

\* the deployment (mock or routing provider, Redis or none) and the
\* boundSec of the request key are fixed; nothing was answered yet
InitEta ==
  /\ EngineInit
  /\ rideStatus = "none"
  /\ rideCaptain = 0
  /\ RideCallersInit
  /\ IdemInit
  /\ AuthIdle
  /\ RestIdle
  /\ mockMode \in BOOLEAN
  /\ etaRedis \in BOOLEAN
  /\ etaBound \in Bounds
  /\ routingTable \in [ CandIdx -> DurVals ]
  /\ etaCache = {}
  /\ etaRes = {}

\* line 128: { durations: sourcesCoords.map(() => 300), bestIndex: 0 };
\* raw is the table the payload was computed from
MockEta ==
  [ durations |-> [ i \in CandIdx |-> MockDur ], bestIndex |-> 0,
    raw |-> [ i \in CandIdx |-> MockDur ] ]

\* lines 131-139: the payload computed from the provider's table
RoutedEta(table, boundSec) ==
  LET r == MultiEta(table, boundSec)
  IN [ durations |-> r.durations, bestIndex |-> r.bestIndex, raw |-> table ]

\* lines 105-159: the cached payload if there is one, else the mock's
\* answer, else the payload computed from the table and stored for 60 s
MultiEtaRequest ==
  /\ IF etaRedis /\ etaCache # {}
     THEN /\ etaRes' = etaCache
          /\ etaCache' = etaCache
     ELSE IF mockMode
     THEN /\ etaRes' = {MockEta}
          /\ etaCache' = etaCache
     ELSE /\ etaRes' = {RoutedEta(routingTable, etaBound)}
          /\ etaCache' = IF etaRedis THEN {RoutedEta(routingTable, etaBound)}
                         ELSE etaCache
  /\ etaRes' # etaRes
  /\ UNCHANGED << engineVars, rideVars, idemVars, authVars, restVars,
                  mockMode, etaRedis, etaBound, routingTable >>

\* the provider's travel times change
TableChanges ==
  /\ ~ mockMode
  /\ \E table \in [ CandIdx -> DurVals ] :
       /\ table # routingTable
       /\ routingTable' = table
  /\ UNCHANGED << engineVars, rideVars, idemVars, authVars, restVars,
                  mockMode, etaRedis, etaBound, etaCache, etaRes >>

\* line 138: setex(cacheKey, 60, ...): the entry expires
CacheExpires ==
  /\ etaCache # {}
  /\ etaCache' = {}
  /\ UNCHANGED << engineVars, rideVars, idemVars, authVars, restVars,
                  mockMode, etaRedis, etaBound, routingTable, etaRes >>

NextEta ==
  \/ MultiEtaRequest
  \/ TableChanges
  \/ CacheExpires

SpecEta == InitEta /\ [][NextEta]_vars

\* the indexes of the smallest non-null entries of a durations array
Smallest(durations) ==
  { i \in CandIdx :
      /\ durations[i] # Null
      /\ \A j \in CandIdx : durations[j] # Null => durations[i] <= durations[j] }

C22_BoundFilter ==
  \A r \in etaRes :
    etaBound # NoBound =>
      /\ \A i \in CandIdx :
           r.durations[i] = IF r.raw[i] # Null /\ r.raw[i] > etaBound
                            THEN Null ELSE r.raw[i]
      /\ \A i \in CandIdx :
           r.durations[i] # Null => r.durations[i] <= etaBound

\* C23: when candidate selection yields no driver, startDispatch records a
\* Dispatch (with outcome exhausted), enqueues no offer task and answers
\* not found.
C23_NoDriverRecordsExhausted ==
  [][ \A r \in Requests :
        (dcode[r] = 0 /\ dcode'[r] = 404)
        => (dispatches' = dispatches + 1 /\ jobs' = jobs) ]_vars

\* C24: with the worker scheduled fairly and not crashing, a Dispatch for
\* which an offer job was enqueued eventually gets an outcome other than
\* pending, and a run of the job opens at most one ack window for each of
\* the candidates from its first one on.
C24_EventuallyDecided ==
  /\ (status = "pending" /\ deliveries >= 1) ~> (status \in {"assigned", "cancelled"})
  /\ [](\A w \in Runs : woffers[w] # << >> =>
          Len(woffers[w]) <= NumCand - woffers[w][1])

\* the job offered every candidate in turn, nobody accepted, and the
\* Dispatch left pending at the end of the last window
C24_Witness ==
  /\ status = "cancelled"
  /\ \A i \in CandIdx : candidates[i] = "timeout"
  /\ \E w \in Runs : wpc[w] = "done" /\ Len(woffers[w]) = NumCand

(***************************************************************************)
(* users-service: session tokens, GET /profile and GET /logout.            *)
(***************************************************************************)
\* expiresIn: '24h' of genToken and expires: 86400 of BlacklistToken, in
\* ticks of the clock
DayTicks == 2

InitAuth ==
  /\ EngineInit
  /\ rideStatus = "none"
  /\ rideCaptain = 0
  /\ RideCallersInit
  /\ IdemInit
  /\ EtaIdle
  /\ AuthIdle
  /\ RestIdle

Tick ==
  /\ now < MaxTime
  /\ now' = now + 1
  /\ UNCHANGED << engineVars, rideVars, idemVars, etaVars, restVars, iat,
                  blacklist, lpc, loggedOut, ppc, ptoken, plate, pres >>

\* genToken: jwt.sign({ _id }, JWT_SECRET, { expiresIn: '24h' }), by
\* POST /register or POST /login
Login(t) ==
  /\ iat[t] = -1
  /\ iat' = [iat EXCEPT ![t] = now]
  /\ UNCHANGED << engineVars, rideVars, idemVars, etaVars, restVars, now,
                  blacklist, lpc, loggedOut, ppc, ptoken, plate, pres >>

\* jwt.verify(token, JWT_SECRET) returns: signed here and not expired
Verifies(t) == iat[t] # -1 /\ now < iat[t] + DayTicks

\* the blacklist never consulted
Blacklisted_never(t) == FALSE

\* const bl = await BlacklistToken.findOne({ token }); if (bl) ...
Blacklisted(t) == blacklist[t] # -1

\* GET /profile, lines 232-235: the token is read from the request and
\* looked up in the blacklist; 401 if it is there. The token presented is
\* one that genToken has issued.
ProfileFind(p, t) ==
  /\ ppc[p] = "idle"
  /\ iat[t] # -1
  /\ ptoken' = [ptoken EXCEPT ![p] = t]
  /\ plate' = [plate EXCEPT ![p] = loggedOut[t]]
  /\ IF Blacklisted(t)
     THEN /\ pres' = [pres EXCEPT ![p] = "401"]
          /\ ppc' = [ppc EXCEPT ![p] = "done"]
     ELSE /\ pres' = pres
          /\ ppc' = [ppc EXCEPT ![p] = "verify"]
  /\ UNCHANGED << engineVars, rideVars, idemVars, etaVars, restVars, now, iat,
                  blacklist, lpc, loggedOut >>

\* GET /profile, lines 236-242: jwt.verify, User.findById, 200; 401 when
\* verify throws
ProfileVerify(p) ==
  /\ ppc[p] = "verify"
  /\ pres' = [pres EXCEPT ![p] = IF Verifies(ptoken[p]) THEN "200" ELSE "401"]
  /\ ppc' = [ppc EXCEPT ![p] = "done"]
  /\ UNCHANGED << engineVars, rideVars, idemVars, etaVars, restVars, now, iat,
                  blacklist, lpc, loggedOut, ptoken, plate >>

\* GET /logout, lines 265-266: BlacklistToken.create({ token }); the unique
\* index on token makes create throw when the token is there already, and
\* the request is left unanswered. The token presented is one that
\* genToken has issued.
LogoutCreate(t) ==
  /\ lpc[t] # "respond"
  /\ iat[t] # -1
  /\ IF blacklist[t] # -1
     THEN /\ lpc' = [lpc EXCEPT ![t] = "error"]
          /\ blacklist' = blacklist
     ELSE /\ lpc' = [lpc EXCEPT ![t] = "respond"]
          /\ blacklist' = [blacklist EXCEPT ![t] = now]
  /\ lpc' # lpc
  /\ UNCHANGED << engineVars, rideVars, idemVars, etaVars, restVars, now, iat,
                  loggedOut, ppc, ptoken, plate, pres >>

\* GET /logout, lines 267-275: cookies cleared, 200 { message: 'Logged out' }
LogoutRespond(t) ==
  /\ lpc[t] = "respond"
  /\ lpc' = [lpc EXCEPT ![t] = "done"]
  /\ loggedOut' = [loggedOut EXCEPT ![t] = TRUE]
  /\ UNCHANGED << engineVars, rideVars, idemVars, etaVars, restVars, now, iat,
                  blacklist, ppc, ptoken, plate, pres >>

\* the TTL index of BlacklistToken.createdAt removes the document once
\* 86400 s have passed
TtlReap(t) ==
  /\ blacklist[t] # -1
  /\ now >= blacklist[t] + DayTicks
  /\ blacklist' = [blacklist EXCEPT ![t] = -1]
  /\ UNCHANGED << engineVars, rideVars, idemVars, etaVars, restVars, now, iat,
                  lpc, loggedOut, ppc, ptoken, plate, pres >>

NextAuth ==
  \/ Tick
  \/ \E t \in Tokens : Login(t)
  \/ \E p \in Profiles, t \in Tokens : ProfileFind(p, t)
  \/ \E p \in Profiles : ProfileVerify(p)
  \/ \E t \in Tokens : LogoutCreate(t)
  \/ \E t \in Tokens : LogoutRespond(t)
  \/ \E t \in Tokens : TtlReap(t)

SpecAuth == InitAuth /\ [][NextAuth]_vars

\* C25: a profile request sent after a logout presenting its token was
\* answered is rejected with 401, and a profile request with a token that
\* verifies and that no logout has blacklisted is answered 200.
C25_LoggedOutTokenRejected ==
  [][ \A p \in Profiles :
        (ppc[p] # "done" /\ ppc'[p] = "done") =>
          /\ plate'[p] => pres'[p] = "401"
          /\ (Verifies(ptoken'[p]) /\ blacklist[ptoken'[p]] = -1)
               => pres'[p] = "200" ]_vars

\* one token that still verifies: accepted by a request before its logout,
\* rejected by a request after it
C25_Witness ==
  \E p, q \in Profiles :
    /\ ptoken[p] = ptoken[q]
    /\ Verifies(ptoken[p])
    /\ ppc[p] = "done" /\ pres[p] = "200" /\ ~ plate[p]
    /\ ppc[q] = "done" /\ pres[q] = "401" /\ plate[q]

(***************************************************************************)
(* The worker against concurrent writers of the Dispatch.                  *)
(***************************************************************************)
\* C26: once the outcome of the Dispatch is not pending, a step of the
\* offer worker writes nothing to the Dispatch: no candidate status, no
\* cursor, no outcome.
C26_NoWorkerWriteAfterDecided ==
  [][ ( status \notin {"none", "pending"} /\ workerVars' # workerVars )
      => dispatchVars' = dispatchVars ]_vars

\* C27: when the Dispatch was cancelled between the worker's observation
\* of the ack and its commit, the commit leaves the outcome cancelled and
\* the Ride the worker created does not stay accepted.
C27_CommitAfterCancelCompensates ==
  [][ \A w \in Runs :
        ( wpc[w] = "commit" /\ wpc'[w] # "commit" /\ status = "cancelled" )
        => ( /\ status' = "cancelled"
             /\ rideId' = rideId
             /\ wride[w] \in 1 .. Len(rides')
                  => rides'[wride[w]].status # "accepted" ) ]_vars

\* C28: timedOut is written only onto a candidate whose status is still
\* offered at the write (in the code: pending), so an accept or a rejection
\* that was answered with success is not overwritten by it.
C28_TimeoutOnlyOverOffered ==
  [][ \A i \in CandIdx :
        ( candidates'[i] = "timeout" /\ candidates[i] # "timeout" )
        => candidates[i] \in {"offered", "pending"} ]_vars

\* the strictly increasing sequences of candidate indexes
Increasing(seq) ==
  \A a, b \in 1 .. Len(seq) : a < b => seq[a] < seq[b]

C30_RejectedKeptAndAdvances ==
  [][ /\ \A i \in CandIdx :
           ( candidates[i] = "rejected" /\ currentIndex' > currentIndex )
           => candidates'[i] = "rejected"
      /\ \A w \in Runs :
           ( /\ wpc[w] = "poll" /\ wpolls'[w] # wpolls[w]
             /\ status = "pending"
             /\ candidates[wi[w]] = "rejected" )
           => wi'[w] = wi[w] + 1 ]_vars

\* the executions of the job that have committed an assignment
Committed ==
  { w \in Runs : wride[w] # 0
                 /\ wpc[w] \in {"notifyCaptain", "notifyUser", "done"} }

\* C31: when two executions of the offer job of one Dispatch overlap, the
\* writes of the second one are turned down: at most one Ride is created
\* for the Dispatch and at most one execution commits an assignment.
C31_DoubleLeaseOneWriter ==
  /\ Len(rides) <= 1
  /\ Cardinality(Committed) <= 1

(***************************************************************************)
(* The worker process crashing inside a job execution, and the queue       *)
(* handing the stalled job to a new execution.                             *)
(***************************************************************************)
\* the process running execution w dies: the handler takes no further step
Crash(w) ==
  /\ wpc[w] \notin {"idle", "done", "crashed"}
  /\ wpc' = [wpc EXCEPT ![w] = "crashed"]
  /\ UNCHANGED << rideVars, idemVars, auxVars, dispatchVars, rides,
                  offersQueue, deliveries, events, wi, wpolls, wride, wloaded,
                  ackVars, woffers, wemit >>

\* the stalled job of a crashed execution is moved back to the wait list,
\* no other execution of it running
Resume ==
  /\ \E w \in Runs : wpc[w] = "crashed"
  /\ \A w \in Runs : wpc[w] \in {"idle", "crashed", "done"}
  /\ offersQueue = 0
  /\ Redeliver

NextCrash ==
  \/ StartDispatch
  \/ CancelDispatch
  \/ Resume
  \/ \E w \in Runs : Crash(w)
  \/ \E w \in Runs : WorkerLoad(w)
  \/ \E w \in Runs : WorkerOffer(w)
  \/ \E w \in Runs : WorkerPoll(w)
  \/ \E w \in Runs : WorkerCreateRide(w)
  \/ \E w \in Runs : WorkerCommit(w)
  \/ \E w \in Runs : WorkerNotifyCaptain(w)
  \/ \E w \in Runs : WorkerNotifyUser(w)
  \/ \E w \in Runs : WorkerTimeout(w)
  \/ \E w \in Runs : WorkerNoCandidate(w)
  \/ \E k \in Callers, accepted \in BOOLEAN : AckRead(k, accepted)
  \/ \E k \in Callers : AckWrite(k)

SpecCrash == Init /\ [][NextCrash]_vars

\* the candidate statuses that end a round
Terminal == {"rejected", "timeout", "skipped", "assigned"}

\* the first candidate at or after the cursor whose status is not terminal,
\* NumCand if there is none
FirstOpen ==
  LET open == { i \in CandIdx : i >= currentIndex /\ candidates[i] \notin Terminal }
  IN IF open = {} THEN NumCand
     ELSE CHOOSE i \in open : \A j \in open : i <= j

\* C32: after a crash of the worker the redelivered job starts at the
\* first candidate at or after the persisted cursor whose status is not
\* terminal, makes no second offer to a candidate that is rejected or
\* timedOut, and the Dispatch has at most one Ride, also when the crash
\* fell between the creation of the Ride and the commit.
C32_ResumeAfterCrash ==
  /\ [] (Len(rides) <= 1)
  /\ [][ \A w \in Runs :
           /\ ( /\ wpc[w] = "idle" /\ wpc'[w] = "loop"
                /\ \E v \in Runs : wpc[v] = "crashed" )
                => wi'[w] = FirstOpen
           /\ ( /\ woffers'[w] # woffers[w]
                /\ events[<< "ride-offer", wi[w] >>] > 0 )
                => candidates[wi[w]] \notin {"rejected", "timeout"} ]_vars

(***************************************************************************)
(* rides-service computeDispatch and POST /offers/start, with the captains *)
(* found, their travel times, the bound, the maps-service mode and the     *)
(* calibration answers as inputs.                                          *)
(***************************************************************************)
\* what is not touched by /offers/start
notStartVars == << engineVars, rideVars, idemVars, etaVars, authVars,
                  laterVars >>

InitStart ==
  /\ EngineInit
  /\ rideStatus = "none"
  /\ rideCaptain = 0
  /\ RideCallersInit
  /\ IdemInit
  /\ EtaIdle
  /\ AuthIdle
  /\ LaterIdle
  /\ sHasCoord \in [ CandIdx -> BOOLEAN ]
  /\ sTravel \in [ CandIdx -> DurVals ]
  /\ sBound \in Bounds
  /\ sMock \in BOOLEAN
  /\ sMl \in BOOLEAN
  /\ sCal \in [ CandIdx -> DurVals ]
  /\ (~ sMl => sCal = [ i \in CandIdx |-> Null ])
  /\ doc = {}
  /\ sCode = 0

\* lines 176-179: captains.map(c => Array.isArray(c.location?.coordinates)
\*   ? 'lat,lon' : null).filter(Boolean): the number of sources, and the
\* captain that source j (from 0) comes from
SourceCount(hasCoord) == Cardinality({ i \in CandIdx : hasCoord[i] })

CaptainOf(hasCoord, j) ==
  CHOOSE i \in CandIdx :
    hasCoord[i] /\ Cardinality({ h \in CandIdx : h < i /\ hasCoord[h] }) = j

\* GET /multi-eta for k sources: the mock's answer or the filtered table
\* with the reduce
MultiEtaOf(mock, table, k, boundSec) ==
  IF mock
  THEN [ durations |-> [ j \in 0 .. (k - 1) |-> MockDur ], bestIndex |-> 0 ]
  ELSE LET filtered ==
             [ j \in 0 .. (k - 1) |->
                 IF boundSec = NoBound THEN table[j]
                 ELSE IF table[j] = Null \/ table[j] <= boundSec
                      THEN table[j] ELSE Null ]
       IN [ durations |-> filtered, bestIndex |-> ReduceBest(filtered, k) ]

\* lines 189-199: with ML_BASE_URL set, every duration is replaced by the
\* calibrated one when the call returned a number, bestIndex is recomputed
Calibrated(r, k, ml, cal) ==
  IF ml
  THEN LET durations == [ j \in 0 .. (k - 1) |->
                            IF cal[j] # Null THEN cal[j] ELSE r.durations[j] ]
       IN [ durations |-> durations, bestIndex |-> ReduceBest(durations, k) ]
  ELSE r

\* computeDispatch without the re-query of lines 202-206
ComputeDispatchOf_noFallback(hasCoord, travel, boundSec, mock, ml, cal) ==
  LET k == SourceCount(hasCoord)
      table == [ j \in 0 .. (k - 1) |-> travel[CaptainOf(hasCoord, j)] ]
  IN Calibrated(MultiEtaOf(mock, table, k, boundSec), k, ml, cal)

\* lines 176-208 of computeDispatch, for a non-empty sources list: the
\* bounded query, the calibration, and the unbounded query when a bound was
\* given and the result has no best entry
ComputeDispatchOf(hasCoord, travel, boundSec, mock, ml, cal) ==
  LET k == SourceCount(hasCoord)
      table == [ j \in 0 .. (k - 1) |-> travel[CaptainOf(hasCoord, j)] ]
      r == Calibrated(MultiEtaOf(mock, table, k, boundSec), k, ml, cal)
  IN IF boundSec # NoBound
        /\ (r.bestIndex = -1 \/ \A j \in 0 .. (k - 1) : r.durations[j] = Null)
     THEN MultiEtaOf(mock, table, k, NoBound)
     ELSE r

\* POST /offers/start, lines 232-256: 404 when computeDispatch returns no
\* captains (none found has coordinates), else the Dispatch is created with
\* etaSec: durations[i] ?? null and currentIndex: Math.max(0, bestIndex || 0)
OffersStartDoc ==
  /\ sCode = 0
  /\ IF SourceCount(sHasCoord) = 0
     THEN /\ sCode' = 404
          /\ doc' = doc
     ELSE LET r == ComputeDispatchOf(sHasCoord, sTravel, sBound, sMock, sMl, sCal)
              k == SourceCount(sHasCoord)
          IN /\ doc' = { [ status |-> "pending",
                           rideId |-> 0,
                           candidates |-> [ i \in CandIdx |-> "pending" ],
                           etaSec |-> [ i \in CandIdx |->
                                          IF i < k THEN r.durations[i] ELSE Null ],
                           currentIndex |-> Max0(r.bestIndex) ] }
             /\ sCode' = 201
  /\ UNCHANGED << notStartVars, sHasCoord, sTravel, sBound, sMock, sMl,
                  sCal >>

NextStart == OffersStartDoc

SpecStart == InitStart /\ [][NextStart]_vars

\* the index of the first smallest non-null entry among the first k
\* durations, -1 when all are null
BestOf(durations, k) ==
  LET some == { j \in 0 .. (k - 1) : durations[j] # Null }
  IN IF some = {} THEN -1
     ELSE CHOOSE j \in some :
            \A h \in some : durations[j] < durations[h]
                            \/ (durations[j] = durations[h] /\ j <= h)

\* the answers of the ETA service for the request's sources: with the
\* bound, and without it
SourceTable ==
  [ j \in 0 .. (SourceCount(sHasCoord) - 1) |-> sTravel[CaptainOf(sHasCoord, j)] ]

BoundedResult ==
  Calibrated(MultiEtaOf(sMock, SourceTable, SourceCount(sHasCoord), sBound),
             SourceCount(sHasCoord), sMl, sCal)

UnboundedResult ==
  MultiEtaOf(sMock, SourceTable, SourceCount(sHasCoord), NoBound)

\* C33: the Dispatch created by startDispatch is pending, every candidate
\* is pending, it has no rideId, and its cursor is max(0, bestIndex) of the
\* bounded ETA result when that has a best entry, else, a bound being
\* given, of the unbounded re-query.
C33_PersistedDispatch ==
  \A d \in doc :
    /\ d.status = "pending"
    /\ \A i \in CandIdx : d.candidates[i] = "pending"
    /\ d.rideId = 0
    /\ LET k == SourceCount(sHasCoord)
           hasBest == BestOf(BoundedResult.durations, k) # -1
           used == IF sBound # NoBound /\ ~ hasBest
                   THEN UnboundedResult ELSE BoundedResult
       IN d.currentIndex = Max0(used.bestIndex)

\* a Dispatch whose cursor comes from the unbounded re-query: every source
\* is beyond the bound and the nearest one is not the first
C33_Witness ==
  \E d \in doc :
    /\ sBound # NoBound
    /\ BoundedResult.bestIndex = -1
    /\ UnboundedResult.bestIndex > 0
    /\ d.currentIndex = UnboundedResult.bestIndex

\* the ETA result the Dispatch is built from
UsedResult ==
  IF sBound # NoBound
     /\ BestOf(BoundedResult.durations, SourceCount(sHasCoord)) = -1
  THEN UnboundedResult ELSE BoundedResult

\* the position of captain i in the sources list
SourceOf(i) == Cardinality({ h \in CandIdx : h < i /\ sHasCoord[h] })

\* C36: in the Dispatch built by startDispatch, etaSec of candidate i is
\* the travel time computed for candidate i's own position (none for a
\* candidate left out of the ETA query), and the cursor designates the
\* candidate with the smallest travel time.
C36_EtaOfOwnPosition ==
  \A d \in doc :
    /\ \A i \in CandIdx :
         d.etaSec[i] = IF sHasCoord[i] THEN UsedResult.durations[SourceOf(i)]
                       ELSE Null
    /\ UsedResult.bestIndex >= 0
         => d.currentIndex = CaptainOf(sHasCoord, UsedResult.bestIndex)

\* C38: once the Ride has a driver no confirm by another driver changes
\* it, and a confirm leaves a Ride that is ongoing, completed or cancelled
\* as it is.
C38_ConfirmKeepsDriver ==
  [][ /\ rideCaptain # 0 => rideCaptain' = rideCaptain
      /\ rideStatus \in {"ongoing", "completed", "cancelled"}
           => (rideStatus' # "accepted" /\ rideCaptain' = rideCaptain) ]_vars

(***************************************************************************)
(* C35: a failed POST of the 'ride-offer' event does not end the round.    *)
(* The step that posts the offer leaves the execution at the start of the  *)
(* ack window of the same candidate whether the POST succeeded or threw,   *)
(* and an execution whose POST threw leaves the window only the ways an    *)
(* execution leaves it: the Dispatch is no longer pending, the candidate   *)
(* acknowledged, or the window ran out and the candidate is timed out and  *)
(* the next one is taken.                                                  *)
(***************************************************************************)
C35_EmitFailureKeepsRound ==
  [][\A w \in Runs :
       /\ woffers'[w] # woffers[w]
            => /\ wemit'[w] \in {"ok", "failed"}
               /\ wpc'[w] = "poll"
               /\ wpolls'[w] = 0
               /\ wi'[w] = wi[w]
       /\ (wemit[w] = "failed" /\ wpc[w] = "poll" /\ wpc'[w] # "poll")
            => \/ wpc'[w] = "done" /\ status # "pending"
               \/ wpc'[w] = "acked" /\ candidates[wi[w]] = "ack"
               \/ /\ wpc'[w] = "loop"
                  /\ wpolls[w] >= 1
                  /\ wi'[w] = wi[w] + 1
                  /\ candidates'[wi[w]] = "timeout" ]_vars

\* the POST to a candidate failed, the candidate acknowledged all the same
\* and the execution saw the acknowledgement inside the window
C35_Witness ==
  \E w \in Runs : wemit[w] = "failed" /\ wpc[w] = "acked"

(***************************************************************************)
(* requestWithRetry of rides-service and maps-service (the two copies are  *)
(* the same text), with the outcome of every call of fn as input.          *)
(***************************************************************************)
\* what requestWithRetry does not touch
notRetryVars == << engineVars, rideVars, idemVars, etaVars, authVars,
                  startVars, multiVars, allocVars, refreshVars >>

InitRetry ==
  /\ EngineInit
  /\ rideStatus = "none"
  /\ rideCaptain = 0
  /\ RideCallersInit
  /\ IdemInit
  /\ EtaIdle
  /\ AuthIdle
  /\ StartIdle
  /\ MultiIdle
  /\ AllocIdle
  /\ RefreshIdle
  /\ rOutcomes \in [ Attempts -> 0 .. MaxVal ]
  /\ rI = 0
  /\ rPc = "try"
  /\ rCalls = 0
  /\ rDelays = << >>
  /\ rLastErr = Null
  /\ rResult = Null

\* a wait that grows by one backoff per attempt
Delay_linear(i) == Backoff * (i + 1)

\* delay(backoff*Math.pow(2,i))
Delay(i) == Backoff * (2 ^ i)

\* for (let i=0;i<=retries;i++){ try { return await fn(); }
\*   catch(e){ lastErr=e; if (i<retries) await delay(...) } }  throw lastErr;
\* one call of fn: return its value, or keep the error and either start
\* the wait or, after the last attempt, leave the loop and throw
RetryCall ==
  /\ rPc = "try"
  /\ rI <= Retries
  /\ rCalls' = rCalls + 1
  /\ IF rOutcomes[rI] # 0
     THEN /\ rPc' = "returned"
          /\ rResult' = rOutcomes[rI]
          /\ UNCHANGED << rI, rLastErr, rDelays >>
     ELSE /\ rLastErr' = rCalls + 1
          /\ IF rI < Retries
             THEN /\ rPc' = "delay"
                  /\ rDelays' = Append(rDelays, Delay(rI))
                  /\ UNCHANGED << rI, rResult >>
             ELSE /\ rPc' = "thrown"
                  /\ rI' = rI + 1
                  /\ rResult' = rCalls + 1
                  /\ rDelays' = rDelays
  /\ UNCHANGED << notRetryVars, rOutcomes >>

\* the wait is over: i++ and the next iteration
RetryDelayDone ==
  /\ rPc = "delay"
  /\ rI' = rI + 1
  /\ rPc' = "try"
  /\ UNCHANGED << notRetryVars, rOutcomes, rCalls, rDelays, rLastErr,
                  rResult >>

NextRetry == RetryCall \/ RetryDelayDone

SpecRetry == InitRetry /\ [][NextRetry]_vars

\* the attempts that succeed
Succeeding == { j \in Attempts : rOutcomes[j] # 0 }

(***************************************************************************)
(* C34: requestWithRetry calls fn at most 4 times; it stops at the first   *)
(* success and returns that result, having made no call after it; the wait *)
(* before retry n is 200 ms times 2^(n-1), and one wait precedes every     *)
(* retry; when all 4 calls fail it throws the error of the fourth.         *)
(***************************************************************************)
C34_RetryBounded ==
  /\ rCalls <= Retries + 1
  /\ \A n \in 1 .. Len(rDelays) : rDelays[n] = 200 * (2 ^ (n - 1))
  /\ rPc = "try" => rCalls = rI /\ Len(rDelays) = rI
  /\ rPc = "returned"
       => /\ Succeeding # {}
          /\ \A j \in Succeeding : rCalls - 1 <= j
          /\ rCalls - 1 \in Succeeding
          /\ rResult = rOutcomes[rCalls - 1]
          /\ Len(rDelays) = rCalls - 1
  /\ rPc = "thrown"
       => /\ Succeeding = {}
          /\ rCalls = 4
          /\ Len(rDelays) = 3
          /\ rResult = 4
  /\ Succeeding = {} => rPc # "returned"

\* two calls failed, the third succeeded and was returned after waits of
\* 200 and 400 ms, though the fourth would have succeeded too
C34_Witness ==
  /\ rPc = "returned"
  /\ rCalls = 3
  /\ rDelays = << 200, 400 >>
  /\ rOutcomes[3] # 0

(***************************************************************************)
(* Several Dispatches with the same captain as candidate: POST             *)
(* /offers/start, the worker execution of each job and POST /ack-offer,    *)
(* with the Captain document and the Rides they share.                     *)
(***************************************************************************)
\* what these steps do not touch
notMultiVars == << engineVars, rideVars, idemVars, etaVars, authVars,
                  startVars, retryVars, allocVars, refreshVars >>

InitMulti ==
  /\ EngineInit
  /\ rideStatus = "none"
  /\ rideCaptain = 0
  /\ RideCallersInit
  /\ IdemInit
  /\ EtaIdle
  /\ AuthIdle
  /\ StartIdle
  /\ RetryIdle
  /\ AllocIdle
  /\ RefreshIdle
  /\ MultiIdle

\* rides-service computeDispatch and /offers/start: the captain is found
\* while the Captain document has status 'active'; the Dispatch is created
\* pending with the captain as candidate and the job is queued
MStartDispatch(d) ==
  /\ mStatus[d] = "none"
  /\ captainStatus = "active"
  /\ mStatus' = [mStatus EXCEPT ![d] = "pending"]
  /\ mCand' = [mCand EXCEPT ![d] = "pending"]
  /\ mpc' = [mpc EXCEPT ![d] = "queued"]
  /\ UNCHANGED << notMultiVars, captainStatus, mRides >>

\* worker lines 35-53: load the Dispatch, return unless pending, post the
\* 'ride-offer' to the candidate
MWorkerOffer(d) ==
  /\ mpc[d] = "queued"
  /\ mpc' = [mpc EXCEPT ![d] = IF LoadReturns(mStatus[d]) THEN "done"
                                                            ELSE "poll"]
  /\ UNCHANGED << notMultiVars, mStatus, mCand, captainStatus, mRides >>

\* POST /ack-offer of the captain for an offer received: 404 unless the
\* Dispatch is pending, else candidates.idx.status := 'ack' or 'rejected'
MAckOffer(d) ==
  /\ mpc[d] \notin {"idle", "queued"}
  /\ mStatus[d] = "pending"
  /\ \E accepted \in BOOLEAN :
       mCand' = [mCand EXCEPT ![d] = IF accepted THEN "ack" ELSE "rejected"]
  /\ UNCHANGED << notMultiVars, mStatus, mpc, captainStatus, mRides >>

\* worker lines 54-59: a poll inside the ack window sees the ack
MWorkerPoll(d) ==
  /\ mpc[d] = "poll"
  /\ IF PollReturns(mStatus[d])
     THEN mpc' = [mpc EXCEPT ![d] = "done"]
     ELSE /\ mCand[d] = "ack"
          /\ mpc' = [mpc EXCEPT ![d] = "lock"]
  /\ UNCHANGED << notMultiVars, mStatus, mCand, captainStatus, mRides >>

\* worker line 74: try { await Captain.updateOne({ _id: cand.captainId },
\*   { $set: { status: 'inactive' } }); } catch (_) {}
MWorkerLock(d) ==
  /\ mpc[d] = "lock"
  /\ captainStatus' = "inactive"
  /\ mpc' = [mpc EXCEPT ![d] = "create"]
  /\ UNCHANGED << notMultiVars, mStatus, mCand, mRides >>

\* worker line 78: Ride.create({ ..., captain: cand.captainId,
\*   status: 'accepted', otp })
MWorkerCreateRide(d) ==
  /\ mpc[d] = "create"
  /\ mRides' = mRides \cup {d}
  /\ mpc' = [mpc EXCEPT ![d] = "commit"]
  /\ UNCHANGED << notMultiVars, mStatus, mCand, captainStatus >>

\* worker line 79: Dispatch.findByIdAndUpdate(dispatchId, { status:
\*   'assigned', ..., candidates.i.status: 'assigned' })
MWorkerCommit(d) ==
  /\ mpc[d] = "commit"
  /\ mStatus' = [mStatus EXCEPT ![d] = "assigned"]
  /\ mCand' = [mCand EXCEPT ![d] = "assigned"]
  /\ mpc' = [mpc EXCEPT ![d] = "done"]
  /\ UNCHANGED << notMultiVars, captainStatus, mRides >>

\* worker lines 93-95: the window ran out without an ack seen
MWorkerTimeout(d) ==
  /\ mpc[d] = "poll"
  /\ mCand' = [mCand EXCEPT ![d] = "timeout"]
  /\ mpc' = [mpc EXCEPT ![d] = "exhausted"]
  /\ UNCHANGED << notMultiVars, mStatus, captainStatus, mRides >>

\* worker line 101: no candidate is left
MWorkerNoCandidate(d) ==
  /\ mpc[d] = "exhausted"
  /\ mStatus' = [mStatus EXCEPT ![d] = "cancelled"]
  /\ mpc' = [mpc EXCEPT ![d] = "done"]
  /\ UNCHANGED << notMultiVars, mCand, captainStatus, mRides >>

NextMulti ==
  \E d \in Dispatches :
    \/ MStartDispatch(d)
    \/ MWorkerOffer(d)
    \/ MAckOffer(d)
    \/ MWorkerPoll(d)
    \/ MWorkerLock(d)
    \/ MWorkerCreateRide(d)
    \/ MWorkerCommit(d)
    \/ MWorkerTimeout(d)
    \/ MWorkerNoCandidate(d)

SpecMulti == InitMulti /\ [][NextMulti]_vars

(***************************************************************************)
(* C37: a captain who is candidate of several concurrent Dispatches is the *)
(* captain of at most one Ride in status accepted or ongoing: accepting    *)
(* the offers of two pending Dispatches commits the captain to one only.   *)
(***************************************************************************)
C37_DriverInOneRide == Cardinality(mRides) <= 1

(***************************************************************************)
(* DriverAllocationAlgorithm: attemptAllocation over scoredDrivers, the    *)
(* response timer of sendAllocationRequest and handleDriverResponse, for   *)
(* one allocation (one allocationId).                                      *)
(***************************************************************************)
\* what the allocation does not touch
notAllocVars == << engineVars, rideVars, idemVars, etaVars, authVars,
                  startVars, retryVars, multiVars, refreshVars >>

InitAlloc ==
  /\ EngineInit
  /\ rideStatus = "none"
  /\ rideCaptain = 0
  /\ RideCallersInit
  /\ IdemInit
  /\ EtaIdle
  /\ AuthIdle
  /\ StartIdle
  /\ RetryIdle
  /\ MultiIdle
  /\ RefreshIdle
  /\ AllocIdle

\* lines 275-284, 305-340: the loop takes the next driver, counts the
\* attempt, stores the entry under allocationId and publishes the request
SendAllocationRequest ==
  /\ alPc = "send"
  /\ alIdx < NumDrivers
  /\ alAttempts < MAX_ALLOCATION_ATTEMPTS
  /\ alAttempts' = alAttempts + 1
  /\ pendingAllocations' = alIdx
  /\ alAsked' = alAsked \cup {alIdx}
  /\ alPc' = "wait"
  /\ UNCHANGED << notAllocVars, alIdx, drvStatus, alRejected, alAnswered,
                  alHandling, alResult >>

\* lines 273-277, 299: no driver is left or the attempts are used up
AllocationGivesUp ==
  /\ alPc = "send"
  /\ (alIdx >= NumDrivers \/ alAttempts >= MAX_ALLOCATION_ATTEMPTS)
  /\ alPc' = "done"
  /\ UNCHANGED << notAllocVars, alIdx, alAttempts, pendingAllocations,
                  drvStatus, alRejected, alAsked, alAnswered, alHandling,
                  alResult >>

\* lines 286-297: the promise of sendAllocationRequest resolved; return the
\* loop's driver when accepted, else add it to the rejected set and go on
Resolved(accepted) ==
  IF accepted
  THEN /\ alResult' = alIdx
       /\ alPc' = "done"
       /\ UNCHANGED << alIdx, alRejected >>
  ELSE /\ alRejected' = alRejected \cup {alIdx}
       /\ alIdx' = alIdx + 1
       /\ alPc' = "send"
       /\ alResult' = alResult

\* lines 307-310: the timer fires: delete the entry, resolve(false)
ResponseTimeout ==
  /\ pendingAllocations # Null
  /\ pendingAllocations' = Null
  /\ Resolved(FALSE)
  /\ UNCHANGED << notAllocVars, alAttempts, drvStatus, alAsked, alAnswered,
                  alHandling >>

\* lines 345-355, 365: handleDriverResponse(allocationId, driverId,
\* accepted) of a driver that was asked: return when there is no entry;
\* else clear the timer and delete the entry; a declining response resolves
\* the entry's promise at once, an accepting one after the writes of
\* lines 356-363
HandleDriverResponse(d, accepted) ==
  /\ d \in alAsked
  /\ alAnswered[d] = "none"
  /\ alAnswered' = [alAnswered EXCEPT ![d] = IF accepted THEN "accepted"
                                                         ELSE "declined"]
  /\ IF pendingAllocations = Null
     THEN UNCHANGED << pendingAllocations, alHandling, alPc, alIdx,
                       alRejected, alResult >>
     ELSE /\ pendingAllocations' = Null
          /\ IF accepted
             THEN /\ alHandling' = d
                  /\ UNCHANGED << alPc, alIdx, alRejected, alResult >>
             ELSE /\ alHandling' = alHandling
                  /\ Resolved(FALSE)
  /\ UNCHANGED << notAllocVars, alAttempts, alAsked, drvStatus >>

\* lines 356-365: redis.hset(`driver:${driverId}`, 'status', 'assigned'),
\* the current_ride key, then pending.resolve(true)
HandleAssign ==
  /\ alHandling # Null
  /\ drvStatus' = [drvStatus EXCEPT ![alHandling] = "assigned"]
  /\ alHandling' = Null
  /\ Resolved(TRUE)
  /\ UNCHANGED << notAllocVars, alAttempts, pendingAllocations, alAsked,
                  alAnswered >>

NextAlloc ==
  \/ SendAllocationRequest
  \/ AllocationGivesUp
  \/ ResponseTimeout
  \/ \E d \in Drivers, accepted \in BOOLEAN : HandleDriverResponse(d, accepted)
  \/ HandleAssign

SpecAlloc == InitAlloc /\ [][NextAlloc]_vars
(***************************************************************************)
(* C39: a driver's response is applied only to the request sent to that    *)
(* driver and still pending: handling the response of a driver whose       *)
(* request is not the pending one (it timed out) changes nothing - not the *)
(* pending entry, the loop or the result of the allocation, and no         *)
(* driver's status - and the driver marked assigned is the one the         *)
(* allocation returns.                                                     *)
(***************************************************************************)
C39_ResponseOnlyToOwnRequest ==
  [][/\ \A d \in Drivers :
          (alAnswered'[d] # alAnswered[d] /\ pendingAllocations # d)
            => UNCHANGED << drvStatus, pendingAllocations, alHandling, alPc,
                            alIdx, alRejected, alResult >>
     /\ \A d \in Drivers :
          (drvStatus'[d] = "assigned" /\ drvStatus[d] # "assigned")
            => alResult' = d ]_vars

(***************************************************************************)
(* users-service POST /refresh and the refresh-token part of GET /logout,  *)
(* over the refresh:users:<rt> keys of Redis; every await is a step.       *)
(***************************************************************************)
\* what these handlers do not touch
notRefreshVars == << engineVars, rideVars, idemVars, etaVars, authVars,
                    startVars, retryVars, multiVars, allocVars >>

InitRefresh ==
  /\ EngineInit
  /\ rideStatus = "none"
  /\ rideCaptain = 0
  /\ RideCallersInit
  /\ IdemInit
  /\ EtaIdle
  /\ AuthIdle
  /\ StartIdle
  /\ RetryIdle
  /\ MultiIdle
  /\ AllocIdle
  /\ RefreshIdle

\* the refresh tokens generated so far
Issued == 0 .. (fNext - 1)

\* lines 249-252: rt = req.cookies.refreshToken; userId = await
\* redis.get(`refresh:users:${rt}`); 401 when there is none
RefreshGet(c, rt) ==
  /\ fpc[c] = "idle"
  /\ rt \in Issued
  /\ ftoken' = [ftoken EXCEPT ![c] = rt]
  /\ flate' = [flate EXCEPT ![c] = rt \in fspent]
  /\ IF rt \in refreshStore
     THEN /\ fpc' = [fpc EXCEPT ![c] = "got"]
          /\ fres' = fres
     ELSE /\ fpc' = [fpc EXCEPT ![c] = "done"]
          /\ fres' = [fres EXCEPT ![c] = 401]
  /\ UNCHANGED << notRefreshVars, refreshStore, fNext, fnew, fspent >>

\* lines 253-255: token = genToken(userId); await redis.del(old key)
RefreshDel(c) ==
  /\ fpc[c] = "got"
  /\ refreshStore' = refreshStore \ {ftoken[c]}
  /\ fpc' = [fpc EXCEPT ![c] = "deleted"]
  /\ UNCHANGED << notRefreshVars, fNext, ftoken, fres, fnew, flate, fspent >>

\* lines 256-260: newRt = genRefreshToken(); await redis.setex(new key);
\* cookies; res.json({ token, refreshToken: newRt })
RefreshSet(c) ==
  /\ fpc[c] = "deleted"
  /\ refreshStore' = refreshStore \cup {fNext}
  /\ fnew' = [fnew EXCEPT ![c] = fNext]
  /\ fNext' = fNext + 1
  /\ fres' = [fres EXCEPT ![c] = 200]
  /\ fspent' = fspent \cup {ftoken[c]}
  /\ fpc' = [fpc EXCEPT ![c] = "done"]
  /\ UNCHANGED << notRefreshVars, ftoken, flate >>

\* lines 270-272: GET /logout with the refreshToken cookie rt:
\* await redis.del(`refresh:users:${rt}`)
LogoutRefresh(rt) ==
  /\ rt \in Issued
  /\ rt \notin fspent
  /\ refreshStore' = refreshStore \ {rt}
  /\ fspent' = fspent \cup {rt}
  /\ UNCHANGED << notRefreshVars, fNext, fpc, ftoken, fres, fnew, flate >>

NextRefresh ==
  \/ \E c \in Refreshers :
       \/ \E rt \in 0 .. NumRefreshers : RefreshGet(c, rt)
       \/ RefreshDel(c)
       \/ RefreshSet(c)
  \/ \E rt \in 0 .. NumRefreshers : LogoutRefresh(rt)

SpecRefresh == InitRefresh /\ [][NextRefresh]_vars

(***************************************************************************)
(* C40: a refresh token is single-use: of the /refresh calls that present  *)
(* the same refresh token at most one is answered 200 with a new pair,     *)
(* and a call that reads a token after a refresh succeeded with it or a    *)
(* logout was made with it is answered 401.                                *)
(***************************************************************************)
C40_RefreshSingleUse ==
  /\ \A rt \in Issued :
       Cardinality({ c \in Refreshers : fres[c] = 200 /\ ftoken[c] = rt }) <= 1
  /\ \A c \in Refreshers : (flate[c] /\ fpc[c] # "idle") => fres[c] = 401

====
